---------------------------- MODULE Spec2Model ----------------------------
(***************************************************************************)
(* A model of src/chi/chi.go: the Sentry middleware for the chi router.    *)
(*                                                                         *)
(* New(options) builds a Handler; the function returned by Handle /        *)
(* HandleFunc serves requests.  Each request is one goroutine that walks   *)
(* through the body of the closure in Handler.handle, statement by         *)
(* statement, and then through its deferred calls in LIFO order.  Several  *)
(* requests run concurrently and interleave freely.                        *)
(*                                                                         *)
(* Time is counted in seconds (time.Second = 1).                           *)
(***************************************************************************)
EXTENDS Integers, Sequences, FiniteSets, TLC

VARIABLES
    options,   \* the Options value passed to New
    h,         \* the Handler returned by New
    req,       \* per request: the goroutine's locals, defer stack and history
    hubs       \* the sentry hubs that exist, by identity, with their scope

vars == <<options, h, req, hubs>>

----------------------------------------------------------------------------
(* Bounds *)

NumRequests == 2
MaxTimeout == 3

Requests == 1..NumRequests

----------------------------------------------------------------------------
(* Values *)

\* 2 * time.Second
DefaultTimeout == 2

\* Go's nil, as a panic value, an error value or an event id.
Nil == "nil"
\* The goroutine is not panicking.
NoPanic == "none"
\* What the runtime panics with.
PanicNilError == "runtime.PanicNilError"
NilDereference == "runtime error: nil pointer dereference"

\* Hub identities.  The process-wide hub, the hub an upstream middleware put
\* on request i's context (one per request, as sentry's middlewares make
\* them), and the hub cloned for request i.
NoHub == <<"nil", 0>>
CurrentHub == <<"current", 0>>
InboundHub(i) == <<"inbound", i>>
ClonedHub(i) == <<"clone", i>>

\* A hub's scope: the request attached to it (0: none), the transaction name
\* and the panics captured on it; writers are the requests that wrote it.
FreshScope == [request |-> 0, transaction |-> "", events |-> <<>>, writers |-> {}]

\* The options a caller may pass to New.
OptionsSet == [Repanic : BOOLEAN, WaitForDelivery : BOOLEAN, Timeout : {0, 1, MaxTimeout}]

\* What the wrapped handler does.
Behaviours == {"return", "panic(nil)", "panic(boom)"}

\* The URL path request i asks for.
PathOf(i) == IF i % 2 = 1 THEN "/users/42" ELSE "/"

\* The pattern the router resolves a path to.
Route(path) == IF path = "/users/42" THEN "/users/{id}" ELSE "/"

\* A request as it reaches the middleware.
Inputs(i) == [inboundHub : BOOLEAN, routeCtx : BOOLEAN, path : {PathOf(i)}, behaviour : Behaviours]

NoInput == [inboundHub |-> FALSE, routeCtx |-> FALSE, path |-> "", behaviour |-> "return"]

\* A goroutine before its request arrives.
Idle ==
    [pc |-> "idle", in |-> NoInput, ctxHub |-> NoHub, hub |-> NoHub,
     defers |-> <<>>, panicked |-> FALSE, panic |-> NoPanic, err |-> Nil, eventID |-> Nil,
     waited |-> 0, delivered |-> FALSE, rpattern |-> "", log |-> <<>>]

----------------------------------------------------------------------------
(* New *)

New(o) ==
    LET timeout == IF o.Timeout = 0 THEN DefaultTimeout ELSE o.Timeout
    IN  [repanic |-> o.Repanic, timeout |-> timeout, waitForDelivery |-> o.WaitForDelivery]

Init ==
    /\ options \in OptionsSet
    /\ h = New(options)
    /\ req = [i \in Requests |-> Idle]
    /\ hubs = (CurrentHub :> FreshScope)

----------------------------------------------------------------------------
(* Helpers *)

\* sentry's hubFromContext: the hub on the context, else the process-wide one.
HubFromContext(c) == IF c = NoHub THEN CurrentHub ELSE c

\* The transaction name as it stands for request i.
TxnName(i) == hubs[HubFromContext(req[i].ctxHub)].transaction

\* The history of a request (req[i].log) records each step the goroutine
\* takes: the operation, the hub it concerns, a value (a name or a panic
\* value), the transaction name at that moment and a number (a duration).
Entry(i, op, hub, val, num) ==
    [op |-> op, hub |-> hub, val |-> val, txn |-> TxnName(i), num |-> num]

Logged(i, e) == Append(req[i].log, e)

\* A write of request i to the scope of hub id.
Write(id, i, field, v) ==
    [hubs EXCEPT ![id] = [[@ EXCEPT ![field] = v] EXCEPT !.writers = @ \cup {i}]]

\* What the goroutine may be panicking with after panic(v).  panic(nil) is
\* recovered as nil by a build with Go's old semantics (before Go 1.21, or
\* GODEBUG=panicnil=1) and as a *runtime.PanicNilError otherwise.
Raised(v) == IF v = Nil THEN {Nil, PanicNilError} ELSE {v}

\* Whether rctx.RoutePattern() may dereference rctx: a chi release whose
\* RoutePattern does not guard a nil receiver does, one that guards it
\* answers "".
MayDereference(rctx) == IF rctx THEN {FALSE} ELSE {FALSE, TRUE}

\* defer f()
Defer(stack, f) == <<f>> \o stack

----------------------------------------------------------------------------
(* The closure returned by Handler.handle *)

\* The request arrives; an upstream middleware may have put a hub on its context.
Arrive(i) ==
    /\ req[i].pc = "idle"
    /\ \E in \in Inputs(i) :
        /\ req' = [req EXCEPT ![i] = [@ EXCEPT !.pc = "getHub", !.in = in,
                        !.ctxHub = IF in.inboundHub THEN InboundHub(i) ELSE NoHub]]
        /\ hubs' = IF in.inboundHub THEN (InboundHub(i) :> FreshScope) @@ hubs ELSE hubs
    /\ UNCHANGED <<options, h>>

\* Mutant of Clone: the process-wide hub itself is used, not a clone of it.
NoClone(i) == CurrentHub

\* sentry.CurrentHub().Clone(): the identity of the new hub.
Clone(i) == ClonedHub(i)

\* Mutant of SetHubOnContext: the clone is never put on the context.
KeepContext(ctx, hub) == ctx

\* sentry.SetHubOnContext(ctx, hub): the hub the derived context carries.
SetHubOnContext(ctx, hub) == hub

\* hub := GetHubFromContext(ctx); if hub == nil { clone; put it on ctx }
GetHub(i) ==
    /\ req[i].pc = "getHub"
    /\ IF req[i].ctxHub = NoHub
       THEN LET hub == Clone(i)
                made == (hub :> hubs[CurrentHub]) @@ hubs
            IN  /\ hubs' = made
                /\ req' = [req EXCEPT ![i] = [@ EXCEPT !.pc = "startTransaction",
                                !.hub = hub,
                                !.ctxHub = SetHubOnContext(req[i].ctxHub, hub),
                                !.log = Logged(i, Entry(i, "clone", hub, "", 0))]]
       ELSE /\ hubs' = hubs
            /\ req' = [req EXCEPT ![i] = [@ EXCEPT !.pc = "startTransaction",
                            !.hub = req[i].ctxHub]]
    /\ UNCHANGED <<options, h>>

\* Mutant of DeferFinish: the Finish call is not registered.
FinishNotDeferred(stack) == stack

\* defer transaction.Finish()
DeferFinish(stack) == Defer(stack, "Finish")

\* transaction := sentry.StartTransaction(ctx, r.URL.Path, ...): the name is
\* recorded on the scope of the context's hub.
StartTransaction(i) ==
    /\ req[i].pc = "startTransaction"
    /\ LET target == HubFromContext(req[i].ctxHub)
       IN  /\ hubs' = Write(target, i, "transaction", req[i].in.path)
           /\ req' = [req EXCEPT ![i] = [@ EXCEPT !.pc = "setRequest",
                           !.defers = DeferFinish(req[i].defers),
                           !.log = Logged(i, [Entry(i, "start", target, req[i].in.path, 0)
                                                EXCEPT !.txn = req[i].in.path])]]
    /\ UNCHANGED <<options, h>>

\* hub.Scope().SetRequest(r); defer h.recoverWithSentry(hub, r)
SetRequest(i) ==
    /\ req[i].pc = "setRequest"
    /\ hubs' = Write(req[i].hub, i, "request", i)
    /\ req' = [req EXCEPT ![i] = [@ EXCEPT !.pc = "serve",
                    !.defers = Defer(req[i].defers, "recoverWithSentry"),
                    !.log = Logged(i, Entry(i, "setRequest", req[i].hub, "", 0))]]
    /\ UNCHANGED <<options, h>>

\* Mutant of AfterServe: the rename also runs when the handler panicked (as
\* it would from a deferred call).
AlwaysRename(panicked) == "rename"

\* Where control goes after handler.ServeHTTP: on to the next statement, or,
\* when it panicked, straight to the deferred calls.
AfterServe(panicked) == IF panicked THEN "unwind" ELSE "rename"

\* handler.ServeHTTP(w, r): the router records the matched pattern on the
\* routing context (when there is one); the handler returns or panics.
ServeHTTP(i) ==
    /\ req[i].pc = "serve"
    /\ LET b == req[i].in.behaviour
           v == IF b = "panic(nil)" THEN Nil ELSE "boom"
           panicked == b # "return"
       IN  \E raised \in Raised(v) :
           req' = [req EXCEPT ![i] = [@ EXCEPT !.pc = AfterServe(panicked),
                       !.panicked = panicked,
                       !.panic = IF panicked THEN raised ELSE NoPanic,
                       !.rpattern = IF req[i].in.routeCtx THEN Route(req[i].in.path) ELSE "",
                       !.log = Logged(i, Entry(i, "serve", req[i].ctxHub,
                                               IF panicked THEN raised ELSE NoPanic, 0))]]
    /\ UNCHANGED <<options, h, hubs>>

\* rctx := chi.RouteContext(r.Context())
\* sentry.GetHubFromContext(transaction.Context()).Scope().SetTransaction(rctx.RoutePattern())
\* A nil rctx is dereferenced by RoutePattern unless the linked chi guards it.
Rename(i) ==
    /\ req[i].pc = "rename"
    /\ \E nilrctx \in MayDereference(req[i].in.routeCtx) :
       LET target == req[i].ctxHub
           derefs == target = NoHub \/ nilrctx
       IN  IF derefs
           THEN /\ req' = [req EXCEPT ![i] = [@ EXCEPT !.pc = "unwind",
                                !.panic = NilDereference,
                                !.log = Logged(i, Entry(i, "renamePanic", target, NilDereference, 0))]]
                /\ hubs' = hubs
           ELSE /\ hubs' = Write(target, i, "transaction", req[i].rpattern)
                /\ req' = [req EXCEPT ![i] = [@ EXCEPT !.pc = "unwind",
                                !.log = Logged(i, [Entry(i, "rename", target, req[i].rpattern, 0)
                                                     EXCEPT !.txn = req[i].rpattern])]]
    /\ UNCHANGED <<options, h>>

----------------------------------------------------------------------------
(* Leaving the closure: the deferred calls, last registered first *)

\* The deferred transaction.Finish().
Finish(i) ==
    /\ req[i].pc = "unwind"
    /\ req[i].defers # <<>>
    /\ Head(req[i].defers) = "Finish"
    /\ req' = [req EXCEPT ![i] = [@ EXCEPT !.defers = Tail(req[i].defers),
                    !.log = Logged(i, Entry(i, "finish", HubFromContext(req[i].ctxHub), req[i].panic, 0))]]
    /\ UNCHANGED <<options, h, hubs>>

\* The deferred h.recoverWithSentry(hub, r), up to its test:
\* if err := recover(); err != nil
Recover(i) ==
    /\ req[i].pc = "unwind"
    /\ req[i].defers # <<>>
    /\ Head(req[i].defers) = "recoverWithSentry"
    /\ LET err == IF req[i].panic = NoPanic THEN Nil ELSE req[i].panic
       IN  req' = [req EXCEPT ![i] = [@ EXCEPT !.defers = Tail(req[i].defers),
                       !.err = err,
                       !.panic = NoPanic,
                       !.pc = IF err # Nil THEN "report" ELSE "unwind",
                       !.log = Logged(i, Entry(i, "recover", req[i].hub, err, 0))]]
    /\ UNCHANGED <<options, h, hubs>>

\* eventID := hub.RecoverWithContext(ctx, err): the hub captures the panic and
\* answers an event id, or nil when the event was dropped.
\* if eventID != nil && h.waitForDelivery { hub.Flush(h.timeout) }
Report(i) ==
    /\ req[i].pc = "report"
    /\ \E id \in {Nil, "event"} :
        LET waits == id # Nil /\ h.waitForDelivery
            reported == Logged(i, Entry(i, "report", req[i].hub, req[i].err, 0))
        IN  req' = [req EXCEPT ![i] = [@ EXCEPT !.eventID = id,
                        !.pc = IF waits THEN "flush" ELSE "repanic",
                        !.waited = 0,
                        !.log = IF waits
                                THEN Append(reported, Entry(i, "flush", req[i].hub, id, h.timeout))
                                ELSE reported]]
    /\ hubs' = Write(req[i].hub, i, "events", Append(hubs[req[i].hub].events, req[i].err))
    /\ UNCHANGED <<options, h>>

\* The transport delivers the event while the goroutine waits in Flush.
Deliver(i) ==
    /\ req[i].pc = "flush"
    /\ ~req[i].delivered
    /\ req' = [req EXCEPT ![i] = [@ EXCEPT !.delivered = TRUE]]
    /\ UNCHANGED <<options, h, hubs>>

\* A second passes in hub.Flush(h.timeout) with the event undelivered.
FlushTick(i) ==
    /\ req[i].pc = "flush"
    /\ ~req[i].delivered
    /\ req[i].waited < h.timeout
    /\ req' = [req EXCEPT ![i] = [@ EXCEPT !.waited = @ + 1]]
    /\ UNCHANGED <<options, h, hubs>>

\* hub.Flush returns: the event is delivered, or the timeout is reached (the
\* delivery is not cancelled).
FlushReturn(i) ==
    /\ req[i].pc = "flush"
    /\ req[i].delivered \/ req[i].waited = h.timeout
    /\ req' = [req EXCEPT ![i] = [@ EXCEPT !.pc = "repanic",
                    !.log = Logged(i, Entry(i, "flushReturn", req[i].hub, "", req[i].waited))]]
    /\ UNCHANGED <<options, h, hubs>>

\* if h.repanic { panic(err) }, and the end of recoverWithSentry.
Repanic(i) ==
    /\ req[i].pc = "repanic"
    /\ req' = [req EXCEPT ![i] = [@ EXCEPT !.pc = "unwind",
                    !.panic = IF h.repanic THEN req[i].err ELSE NoPanic,
                    !.log = Logged(i, Entry(i, IF h.repanic THEN "repanic" ELSE "swallow",
                                            req[i].hub, req[i].err, 0))]]
    /\ UNCHANGED <<options, h, hubs>>

\* No deferred call is left: control leaves the closure, returning to the
\* caller or with the panic propagating to it.
Exit(i) ==
    /\ req[i].pc = "unwind"
    /\ req[i].defers = <<>>
    /\ req' = [req EXCEPT ![i] = [@ EXCEPT !.pc = "done",
                    !.log = Logged(i, Entry(i, "exit", NoHub, req[i].panic, 0))]]
    /\ UNCHANGED <<options, h, hubs>>

----------------------------------------------------------------------------

Step(i) ==
    \/ Arrive(i)
    \/ GetHub(i)
    \/ StartTransaction(i)
    \/ SetRequest(i)
    \/ ServeHTTP(i)
    \/ Rename(i)
    \/ Recover(i)
    \/ Report(i)
    \/ Deliver(i)
    \/ FlushTick(i)
    \/ FlushReturn(i)
    \/ Repanic(i)
    \/ Finish(i)
    \/ Exit(i)

Next == \E i \in Requests : Step(i)

Spec == Init /\ [][Next]_vars

----------------------------------------------------------------------------
(* Reading a request's history *)

Done(i) == req[i].pc = "done"

\* The entries of request i's history whose operation is in ops, in order.
Ops(i, ops) == SelectSeq(req[i].log, LAMBDA e : e.op \in ops)

Count(i, op) == Len(Ops(i, {op}))

\* Where the entries with operation op stand in request i's history.
At(i, op) == {k \in DOMAIN req[i].log : req[i].log[k].op = op}

Before(i, a, b) == \A j \in At(i, a), k \in At(i, b) : j < k

\* The writes the middleware itself makes to a hub on behalf of request i.
MiddlewareWrites == {"setRequest", "report", "rename"}
HubWrites == MiddlewareWrites \cup {"start"}

\* What the caller of the wrapping function observes: the panic value that
\* reaches it, or NoPanic for a normal return.
Observed(i) == req[i].log[Len(req[i].log)].val

\* What the goroutine was panicking with as the wrapped handler panicked.
RaisedValue(i) == Ops(i, {"serve"})[1].val

\* The request's own hub: the one that came with it, or the one cloned for it.
OwnHub(i) == IF req[i].in.inboundHub THEN InboundHub(i) ELSE ClonedHub(i)

----------------------------------------------------------------------------
(* C1 *)

\* C1: the transaction of a request is finished at most once while the
\* request is served and exactly once by the time control leaves the wrapping
\* function, whether the wrapped handler returned, panicked and was swallowed,
\* or panicked and was re-raised; the start happens once as well.
C1_FinishedExactlyOnce ==
    \A i \in Requests :
        /\ Count(i, "finish") <= 1
        /\ Count(i, "start") <= 1
        /\ Done(i) => /\ Count(i, "finish") = 1
                      /\ Count(i, "start") = 1
                      /\ Before(i, "start", "finish")
                      /\ Before(i, "finish", "exit")

\* One request left by a re-raised panic and another by a normal return, both
\* finished once.
C1_Witness ==
    \E i, j \in Requests :
        /\ Done(i) /\ req[i].panicked /\ Observed(i) = "boom" /\ Count(i, "finish") = 1
        /\ Done(j) /\ ~req[j].panicked /\ Observed(j) = NoPanic /\ Count(j, "finish") = 1

----------------------------------------------------------------------------
(* C2 *)

\* C2: when the wrapped handler panics, the caller observes a panic carrying
\* the handler's panic value, after a report, if the Handler was built with
\* Repanic, and a normal return if it was not.
C2_RepanicPropagates ==
    \A i \in Requests :
        Done(i) /\ req[i].panicked =>
            IF h.repanic
            THEN /\ Observed(i) # NoPanic
                 /\ Observed(i) = RaisedValue(i)
                 /\ Count(i, "report") = 1
                 /\ Before(i, "report", "exit")
            ELSE Observed(i) = NoPanic

\* The same for the panics recover() answers with a non-nil value.
C2_NonNilPanics ==
    \A i \in Requests :
        Done(i) /\ req[i].panicked /\ RaisedValue(i) # Nil =>
            IF h.repanic
            THEN /\ Observed(i) = RaisedValue(i)
                 /\ Count(i, "report") = 1
                 /\ Before(i, "report", "exit")
            ELSE Observed(i) = NoPanic

----------------------------------------------------------------------------
(* C3 *)

\* C3: a request hands a panic to the hub exactly once when the wrapped
\* handler panicked and never when it returned normally, whatever the panic
\* value and the configuration.
C3_ReportedIffPanicked ==
    \A i \in Requests :
        /\ Count(i, "report") <= 1
        /\ Done(i) => Count(i, "report") = IF req[i].panicked THEN 1 ELSE 0

----------------------------------------------------------------------------
(* C4 *)

\* The timeout New is to set.
ConfiguredTimeout == IF options.Timeout # 0 THEN options.Timeout ELSE DefaultTimeout

\* C4: a request waits in hub.Flush exactly when the wrapped handler
\* panicked, the report answered an event id and WaitForDelivery is set; it
\* then waits once, bounded by the configured timeout (2 seconds for a zero
\* Timeout), and leaves the wait by then; any other request never waits.
C4_WaitsExactlyWhen ==
    \A i \in Requests :
        /\ Count(i, "flush") <= 1
        /\ \A k \in At(i, "flush") : req[i].log[k].num = ConfiguredTimeout
        /\ req[i].waited <= ConfiguredTimeout
        /\ Count(i, "flush") = 1 =>
              req[i].panicked /\ req[i].eventID # Nil /\ h.waitForDelivery
        /\ Done(i) /\ req[i].panicked /\ req[i].eventID # Nil /\ h.waitForDelivery =>
              Count(i, "flush") = 1 /\ Count(i, "flushReturn") = 1

\* The wait itself, whoever panicked: once per reported event with an id when
\* WaitForDelivery is set, bounded by the configured timeout.
C4_WaitBound ==
    \A i \in Requests :
        /\ Count(i, "flush") <= 1
        /\ \A k \in At(i, "flush") : req[i].log[k].num = ConfiguredTimeout
        /\ req[i].waited <= ConfiguredTimeout
        /\ req[i].pc = "flush" /\ req[i].waited = ConfiguredTimeout => ENABLED FlushReturn(i)
        /\ Count(i, "flush") = 1 =>
              Count(i, "report") = 1 /\ req[i].eventID # Nil /\ h.waitForDelivery
        /\ Done(i) /\ Count(i, "report") = 1 /\ req[i].eventID # Nil /\ h.waitForDelivery =>
              Count(i, "flush") = 1 /\ Count(i, "flushReturn") = 1

----------------------------------------------------------------------------
(* C5 *)

\* C5: a request that came without a hub clones the process-wide hub exactly
\* once and all its writes go to that clone, so that the process-wide hub
\* stays as it was; a request that came with a hub makes no clone and writes
\* to that hub.
C5_CloneOncePerRequest ==
    /\ hubs[CurrentHub] = FreshScope
    /\ \A i \in Requests :
        /\ \A k \in DOMAIN req[i].log :
               req[i].log[k].op \in HubWrites =>
                   /\ req[i].log[k].hub = OwnHub(i)
                   /\ req[i].log[k].hub # CurrentHub
        /\ req[i].pc \notin {"idle", "getHub"} =>
               /\ req[i].hub = OwnHub(i)
               /\ Count(i, "clone") = IF req[i].in.inboundHub THEN 0 ELSE 1
               /\ \A k \in At(i, "clone") : req[i].log[k].hub = OwnHub(i)

C5_Witness ==
    \E i, j \in Requests :
        /\ Done(i) /\ ~req[i].in.inboundHub /\ Count(i, "clone") = 1
        /\ Count(i, "report") = 1 /\ hubs[ClonedHub(i)].events # <<>>
        /\ Done(j) /\ req[j].in.inboundHub /\ Count(j, "rename") = 1
        /\ hubs[InboundHub(j)].request = j

----------------------------------------------------------------------------
(* C6 *)

\* C6: after a request whose wrapped handler returned without panicking, the
\* transaction name on the request's hub is the pattern the router resolved
\* (the empty pattern when there is no routing context), and the rename
\* raised no panic.
C6_RenamedToPattern ==
    \A i \in Requests :
        Done(i) /\ ~req[i].panicked =>
            /\ Count(i, "renamePanic") = 0
            /\ Count(i, "rename") = 1
            /\ hubs[req[i].hub].transaction = req[i].rpattern
            /\ Observed(i) = NoPanic

\* The same for the requests that carry a routing context.
C6_RoutedRequests ==
    \A i \in Requests :
        Done(i) /\ ~req[i].panicked /\ req[i].in.routeCtx =>
            /\ Count(i, "renamePanic") = 0
            /\ Count(i, "rename") = 1
            /\ hubs[req[i].hub].transaction = Route(req[i].in.path)
            /\ Observed(i) = NoPanic

----------------------------------------------------------------------------
(* C7 *)

\* C7: the wrapped handler is invoked with a context that carries a hub, and
\* it is the hub the middleware attaches the request to, reports a recovered
\* panic on and sets the transaction name on.
C7_HandlerSeesTheHub ==
    \A i \in Requests :
        \A s \in At(i, "serve") :
            /\ req[i].log[s].hub # NoHub
            /\ req[i].log[s].hub \in DOMAIN hubs
            /\ \A k \in DOMAIN req[i].log :
                   req[i].log[k].op \in MiddlewareWrites =>
                       req[i].log[k].hub = req[i].log[s].hub

C7_Witness ==
    \E i, j \in Requests :
        /\ Done(i) /\ Count(i, "serve") = 1 /\ Count(i, "report") = 1
        /\ Ops(i, {"serve"})[1].hub = ClonedHub(i)
        /\ Done(j) /\ Count(j, "serve") = 1 /\ Count(j, "rename") = 1
        /\ Ops(j, {"serve"})[1].hub = InboundHub(j)

----------------------------------------------------------------------------
(* C8 *)

----------------------------------------------------------------------------
(* C9 *)

\* C9: when the wrapped handler panics the panic is reported, then comes the
\* delivery wait (if any), then the decision to re-raise, then the
\* transaction finish, then the exit; the finish runs also after a re-raise.
C9_PanicOrder ==
    \A i \in Requests :
        Done(i) /\ req[i].panicked =>
            /\ Count(i, "report") = 1
            /\ Count(i, "repanic") + Count(i, "swallow") = 1
            /\ Count(i, "finish") = 1
            /\ Before(i, "report", "flush")
            /\ Before(i, "flush", "flushReturn")
            /\ Before(i, "report", "repanic") /\ Before(i, "report", "swallow")
            /\ Before(i, "flushReturn", "repanic") /\ Before(i, "flushReturn", "swallow")
            /\ Before(i, "repanic", "finish") /\ Before(i, "swallow", "finish")
            /\ Before(i, "finish", "exit")

\* The order of the steps that are taken, whatever the panic value.
C9_OrderOfStepsTaken ==
    \A i \in Requests :
        /\ Before(i, "recover", "report")
        /\ Before(i, "report", "flush")
        /\ Before(i, "flush", "flushReturn")
        /\ Before(i, "report", "repanic") /\ Before(i, "report", "swallow")
        /\ Before(i, "flushReturn", "repanic") /\ Before(i, "flushReturn", "swallow")
        /\ Before(i, "repanic", "finish") /\ Before(i, "swallow", "finish")
        /\ Before(i, "recover", "finish")
        /\ Before(i, "finish", "exit")
        /\ Done(i) => Count(i, "finish") = 1 /\ Count(i, "recover") = 1

----------------------------------------------------------------------------
(* C10 *)

\* C10: when the wrapped handler panics the rename is never executed: the
\* middleware sets no route pattern on the hub, and the transaction bears the
\* raw URL path when the panic is reported and when it is finished.
C10_NoRenameOnPanic ==
    \A i \in Requests :
        req[i].panicked =>
            /\ Count(i, "rename") = 0
            /\ Count(i, "renamePanic") = 0
            /\ hubs[req[i].hub].transaction = req[i].in.path
            /\ \A k \in DOMAIN req[i].log :
                   req[i].log[k].op \in {"report", "finish"} =>
                       req[i].log[k].txn = req[i].in.path

\* A panicking request whose router had resolved a pattern other than the
\* path, reported and finished.
C10_Witness ==
    \E i \in Requests :
        /\ Done(i) /\ req[i].panicked
        /\ Count(i, "report") = 1 /\ Count(i, "finish") = 1
        /\ req[i].in.routeCtx /\ req[i].rpattern # req[i].in.path
        /\ hubs[req[i].hub].transaction = req[i].in.path

=============================================================================
